---- MODULE Spec2Model ----
(***************************************************************************)
(* Model of actix-web-middleware-slogger: the SLogger middleware           *)
(* (src/src/logger.rs) and its log emission wrapper (src/src/wrapper.rs).  *)
(*                                                                         *)
(* One request travels through one SLoggerMiddlewareService: the field     *)
(* set is built (FieldsBuilder), the middleware configured (SLogger),      *)
(* the service created (new_transform), the request handled (call, the     *)
(* SLoggerResponse future, the StreamLog body) and the record emitted      *)
(* (rust_log::log).                                                        *)
(***************************************************************************)
EXTENDS Naturals, Integers, Sequences, FiniteSets, TLC

VARIABLES
    builder,     \* FieldsBuilder.fields: HashSet<Field>
    flights,     \* the requests a shared service handles concurrently, by name
    inserted,    \* history: the with_* calls that inserted a new field, in order
    logger,      \* Option<Inner> of the SLogger under configuration
    service,     \* Option<Inner> shared with the SLoggerMiddlewareService
    req,         \* Option<ServiceRequest> of the request being handled
    extensions,  \* req.extensions(): Option<RequestId> held by the request context
    generated,   \* history: the RequestIds that RequestId::new has returned
    fut,         \* SLoggerResponse: [state, fields, time, log_target]
    res,         \* Option<response> the downstream service resolved to
    stream,      \* Option<StreamLog>: [fields, size, time, log_target]
    eos,         \* the wrapped body has reported end-of-stream
    polls,       \* number of poll_next calls made by the transport
    lastInner,   \* history: what the wrapped body returned to the last poll
    lastOut,     \* history: what StreamLog returned to the transport for it
    streamed,    \* history: total length of the chunks handed to the transport
    passes,      \* history: the rendering passes run, in order
    emitted,     \* history: the records handed to rust_log::log, in order
    panicked,    \* Option<cause>: a configuration call has panicked
    origin,      \* history: how the SLogger was created, "new" or "default"
    lastTarget,  \* history: Option<target> of the last log_target call
    downstream,  \* history: Option<result> the downstream future resolved to
    result       \* Option<result> the SLoggerResponse future resolved to

vars == <<builder, inserted, logger, service, req, extensions, generated, fut,
          res, stream, eos, polls, lastInner, lastOut, streamed, passes, emitted,
          panicked, origin, lastTarget, downstream, result, flights>>

-----------------------------------------------------------------------------
(* Bounds *)

\* with_* calls that a multi-field configuration may hold
MaxFields == 2
\* poll_next calls the transport makes on one body
MaxPolls == 2
\* exclude_regex calls made on one SLogger
MaxRegex == 1
MaxDefaultOrders == 2

-----------------------------------------------------------------------------
(* Option<T> *)

None == <<>>
Some(x) == <<x>>
IsSome(o) == o # <<>>
Unwrap(o) == o[1]

-----------------------------------------------------------------------------
(* Strings and header bytes *)

\* The characters of the header values of the model, by byte code: digits,
\* letters and the punctuation - . / : and space.
Digits == << "0", "1", "2", "3", "4", "5", "6", "7", "8", "9" >>
Upper ==
    << "A", "B", "C", "D", "E", "F", "G", "H", "I", "J", "K", "L", "M",
       "N", "O", "P", "Q", "R", "S", "T", "U", "V", "W", "X", "Y", "Z" >>
Lower ==
    << "a", "b", "c", "d", "e", "f", "g", "h", "i", "j", "k", "l", "m",
       "n", "o", "p", "q", "r", "s", "t", "u", "v", "w", "x", "y", "z" >>

\* HeaderValue::to_str accepts a byte iff it is visible ASCII or a tab.
IsVisibleAscii(b) == (b >= 32 /\ b < 127) \/ b = 9

Chr(b) ==
    CASE b \in 48..57 -> Digits[b - 47]
      [] b \in 65..90 -> Upper[b - 64]
      [] b \in 97..122 -> Lower[b - 96]
      [] b = 32 -> " "
      [] b = 45 -> "-"
      [] b = 46 -> "."
      [] b = 47 -> "/"
      [] b = 58 -> ":"

RECURSIVE Text(_)
Text(bytes) == IF bytes = <<>> THEN "" ELSE Chr(Head(bytes)) \o Text(Tail(bytes))

\* val.to_str(): Ok(text) when every byte is visible, Err otherwise.
ToStr(bytes) ==
    IF \A i \in 1..Len(bytes) : IsVisibleAscii(bytes[i])
    THEN [ok |-> TRUE, str |-> Text(bytes)]
    ELSE [ok |-> FALSE, str |-> ""]

\* val.to_str().unwrap_or_default().to_string()
HeaderText(bytes) == IF ToStr(bytes).ok THEN ToStr(bytes).str ELSE ""

-----------------------------------------------------------------------------
(* Field: the tagged union of logger.rs. A spec is (kind, arg) with no     *)
(* value; Field::KV(key, value) has kind "KV", its key in arg and its      *)
(* Option<String> in val.                                                  *)

Spec0(kind) == [kind |-> kind, arg |-> "", val |-> None]
Spec1(kind, arg) == [kind |-> kind, arg |-> arg, val |-> None]
KV(key, value) == [kind |-> "KV", arg |-> key, val |-> value]

\* Header names that with_request_id / with_request_header /
\* with_response_header are called with, and environment variable names
\* that with_environment is called with.
IdHeaders == {"x-request-id", "x-correlation-id"}
RequestHeaders == {"x-request-id"}
ResponseHeaders == {"content-type", "x-missing"}
EnvNames == {"TEST_ENV_VAR", "MISSING_ENV_VAR", ""}

\* The with_* methods that take a header name.
HeaderKinds == {"RequestId", "RequestHeader", "ResponseHeader"}

\* The strings these methods are called with, as bytes: x-request-id,
\* X-Request-Id, x-correlation-id, content-type, x-missing, and two strings
\* that are no header name: "x id" and the empty string.
HeaderInputs ==
    { <<120, 45, 114, 101, 113, 117, 101, 115, 116, 45, 105, 100>>,
      <<88, 45, 82, 101, 113, 117, 101, 115, 116, 45, 73, 100>>,
      <<120, 45, 99, 111, 114, 114, 101, 108, 97, 116, 105, 111, 110, 45, 105, 100>>,
      <<99, 111, 110, 116, 101, 110, 116, 45, 116, 121, 112, 101>>,
      <<120, 45, 109, 105, 115, 115, 105, 110, 103>>,
      <<120, 32, 105, 100>>,
      <<>> }

\* The bytes of an HTTP token, which is what a header name is made of.
IsTokenByte(b) ==
    \/ b \in 48..57
    \/ b \in 65..90
    \/ b \in 97..122
    \/ b \in {33, 35, 36, 37, 38, 39, 42, 43, 45, 46, 94, 95, 96, 124, 126}

ToLowerByte(b) == IF b \in 65..90 THEN b + 32 ELSE b

\* HeaderName::try_from(header): Err for the empty string and for a string
\* with a byte outside the token set, Ok(the name in lower case) otherwise.
HeaderNameTryFrom(bytes) ==
    IF bytes # <<>> /\ \A i \in 1..Len(bytes) : IsTokenByte(bytes[i])
    THEN Some(Text([i \in 1..Len(bytes) |-> ToLowerByte(bytes[i])]))
    ELSE None

\* The specs that the with_* methods of FieldsBuilder insert.
BuilderFields ==
    {Spec0(k) : k \in {"Method", "Status", "Path", "Params", "Version", "Host",
                       "RemoteAddr", "RealIp", "TracingRequestId", "Size",
                       "Duration", "DurationMillis", "RequestTime", "UserAgent",
                       "Referer"}}
    \cup {Spec1("RequestId", h) : h \in IdHeaders}
    \cup {Spec1("RequestHeader", h) : h \in RequestHeaders}
    \cup {Spec1("ResponseHeader", h) : h \in ResponseHeaders}
    \cup {Spec1("Environment", n) : n \in EnvNames}

\* Configurations of more than one field are drawn from these specs, which
\* cover the three rendering passes.
CoreFields ==
    {Spec1("RequestId", "x-request-id"), Spec1("RequestId", "x-correlation-id"),
     Spec0("Status"), Spec0("Size")}

\* The two duration fields, which are also configured together.
DurationFields == {Spec0("Duration"), Spec0("DurationMillis")}

-----------------------------------------------------------------------------
(* Requests, responses, bodies, clock and environment: the inputs *)

HeaderNames == {"x-request-id", "x-correlation-id", "user-agent", "referer"}

NoHeaders == [h \in HeaderNames |-> None]

\* "test-id", "curl" and a value holding a byte that is not visible ASCII
TestId == <<116, 101, 115, 116, 45, 105, 100>>
Curl == <<99, 117, 114, 108>>
Opaque == <<105, 255>>

Requests ==
    { [method |-> "GET", path |-> "/test", query |-> "param=value",
       version |-> "HTTP_11", host |-> "localhost", peer |-> Some("127.0.0.1"),
       realip |-> Some("127.0.0.1"),
       headers |-> [NoHeaders EXCEPT !["x-request-id"] = Some(TestId),
                                     !["user-agent"] = Some(Curl)]],
      [method |-> "POST", path |-> "/health", query |-> "verbose=1",
       version |-> "HTTP_2", host |-> "example.com", peer |-> None,
       realip |-> None, headers |-> NoHeaders],
      [method |-> "GET", path |-> "/api/v1/users", query |-> "",
       version |-> "HTTP_10", host |-> "localhost", peer |-> Some("10.0.0.1"),
       realip |-> Some("192.168.0.1"),
       headers |-> [NoHeaders EXCEPT !["x-request-id"] = Some(Opaque),
                                     !["user-agent"] = Some(Opaque),
                                     !["referer"] = Some(Opaque)]] }

\* Responses the downstream service resolves to: status line, headers and
\* the size hint of the body.
Responses ==
    { [status |-> "200 OK",
       headers |-> [h \in ResponseHeaders |->
                        IF h = "content-type" THEN Some(<<106, 115, 111, 110>>) ELSE None],
       size |-> "Sized"],
      [status |-> "500 Internal Server Error",
       headers |-> [h \in ResponseHeaders |->
                        IF h = "content-type" THEN Some(Opaque) ELSE None],
       size |-> "Stream"] }

\* Items the wrapped body returns to poll_next.
Pending == [tag |-> "pending", data |-> <<>>]
Chunk(bytes) == [tag |-> "chunk", data |-> bytes]
BodyErr == [tag |-> "err", data |-> <<101>>]
EndOfStream == [tag |-> "eos", data |-> <<>>]
PollItems == {Pending, Chunk(<<7>>), Chunk(<<8, 9>>), BodyErr, EndOfStream}

\* OffsetDateTime::now_utc() in milliseconds, at call and at drop.
ArrivalTimes == {1000, 2000}
CompletionTimes == {2000, 3500}

\* The process environment read by env::var.
Environ == [n \in EnvNames |-> IF n = "TEST_ENV_VAR" THEN Some("test_value") ELSE None]

-----------------------------------------------------------------------------
(* Formatting *)

Pad2(n) == IF n < 10 THEN "0" \o ToString(n) ELSE ToString(n)

\* now.format(&Rfc3339) of a whole second of the first minute of the epoch
Rfc3339(ms) == "1970-01-01T00:00:" \o Pad2(ms \div 1000) \o "Z"

\* The fraction digits f64's Display prints for thousandths: no trailing zero.
Frac3(th) ==
    IF th % 100 = 0 THEN ToString(th \div 100)
    ELSE IF th % 10 = 0 THEN Pad2(th \div 10)
    ELSE (IF th < 100 THEN "0" ELSE "") \o Pad2(th)

\* rt.as_seconds_f64().to_string() for a duration of ms milliseconds
FmtSeconds(ms) ==
    ToString(ms \div 1000) \o (IF ms % 1000 = 0 THEN "" ELSE "." \o Frac3(ms % 1000))

\* ((rt.whole_nanoseconds() as f64) / 1_000_000.0).to_string()
FmtMillis(ms) == ToString(ms)

\* id.0.as_hyphenated().to_string(): the 36 characters of the n-th identity
Hyphenated(id) == "00000000-0000-4000-8000-0000000000" \o Pad2(id)

\* RequestId::new(): an identity no earlier call has returned
NewRequestId(gen) == Len(gen) + 1

-----------------------------------------------------------------------------
(* Field::render_request, Field::render_response, Field::render *)

VersionLabel(v) ==
    CASE v = "HTTP_09" -> "HTTP/0.9"
      [] v = "HTTP_10" -> "HTTP/1.0"
      [] v = "HTTP_11" -> "HTTP/1.1"
      [] v = "HTTP_2" -> "HTTP/2.0"
      [] v = "HTTP_3" -> "HTTP/3.0"
      [] OTHER -> "unknown"

\* Mutant: a header whose bytes cannot be decoded is treated as absent.
HeaderOptDropsUndecodable(headers, name) ==
    IF name \in DOMAIN headers /\ IsSome(headers[name])
          /\ ToStr(Unwrap(headers[name])).ok
    THEN Some(ToStr(Unwrap(headers[name])).str)
    ELSE None

\* req.headers().get(name).map(|v| v.to_str().unwrap_or_default().to_string())
HeaderOpt(headers, name) ==
    IF name \in DOMAIN headers /\ IsSome(headers[name])
    THEN Some(HeaderText(Unwrap(headers[name])))
    ELSE None

HasHeader(headers, name) == name \in DOMAIN headers /\ IsSome(headers[name])

\* The RequestId arm: the header's value, or a new identity that is put
\* into the request context. Yields the field, the context and the
\* identities generated so far.
RenderRequestId(f, rq, ext, gen) ==
    IF HasHeader(rq.headers, f.arg)
    THEN [field |-> KV(f.arg, HeaderOpt(rq.headers, f.arg)), ext |-> ext, gen |-> gen]
    ELSE LET id == NewRequestId(gen)
         IN [field |-> KV(f.arg, Some(Hyphenated(id))),
             ext |-> [ext EXCEPT !.request_id = Some(id)],
             gen |-> Append(gen, id)]

\* Mutant: the Path arm logs the path together with the query string.
RenderRequestFieldUri(f, now, rq, ext) ==
    CASE f.kind = "Method" -> KV("method", Some(rq.method))
      [] f.kind = "Version" -> KV("version", Some(VersionLabel(rq.version)))
      [] f.kind = "Path" -> KV("path", Some(rq.path \o "?" \o rq.query))
      [] f.kind = "Params" -> KV("params", Some(rq.query))
      [] f.kind = "Host" -> KV("host", Some(rq.host))
      [] f.kind = "RemoteAddr" -> KV("remote_addr", rq.peer)
      [] f.kind = "RealIp" -> KV("real_ip", rq.realip)
      [] f.kind = "TracingRequestId" ->
            KV("tracing_request_id",
               IF IsSome(ext.tracing_id) THEN Some(Hyphenated(Unwrap(ext.tracing_id)))
               ELSE None)
      [] f.kind = "RequestHeader" -> KV(f.arg, HeaderOpt(rq.headers, f.arg))
      [] f.kind = "RequestTime" -> KV("datetime", Some(Rfc3339(now)))
      [] f.kind = "UserAgent" -> KV("user_agent", HeaderOpt(rq.headers, "user-agent"))
      [] f.kind = "Referer" -> KV("referer", HeaderOpt(rq.headers, "referer"))
      [] OTHER -> f

\* The arms of render_request that only read the request.
RenderRequestField(f, now, rq, ext) ==
    CASE f.kind = "Method" -> KV("method", Some(rq.method))
      [] f.kind = "Version" -> KV("version", Some(VersionLabel(rq.version)))
      [] f.kind = "Path" -> KV("path", Some(rq.path))
      [] f.kind = "Params" -> KV("params", Some(rq.query))
      [] f.kind = "Host" -> KV("host", Some(rq.host))
      [] f.kind = "RemoteAddr" -> KV("remote_addr", rq.peer)
      [] f.kind = "RealIp" -> KV("real_ip", rq.realip)
      [] f.kind = "TracingRequestId" ->
            KV("tracing_request_id",
               IF IsSome(ext.tracing_id) THEN Some(Hyphenated(Unwrap(ext.tracing_id)))
               ELSE None)
      [] f.kind = "RequestHeader" -> KV(f.arg, HeaderOpt(rq.headers, f.arg))
      [] f.kind = "RequestTime" -> KV("datetime", Some(Rfc3339(now)))
      [] f.kind = "UserAgent" -> KV("user_agent", HeaderOpt(rq.headers, "user-agent"))
      [] f.kind = "Referer" -> KV("referer", HeaderOpt(rq.headers, "referer"))
      [] OTHER -> f

render_request(f, now, rq, ext, gen) ==
    IF f.kind = "RequestId"
    THEN RenderRequestId(f, rq, ext, gen)
    ELSE [field |-> RenderRequestField(f, now, rq, ext), ext |-> ext, gen |-> gen]

\* Mutant: the response-time pass logs every response as a success.
RenderResponseAlwaysOk(f, rs) ==
    CASE f.kind = "Status" -> KV("status", Some("200 OK"))
      [] f.kind = "ResponseHeader" -> KV(f.arg, HeaderOpt(rs.headers, f.arg))
      [] OTHER -> f

\* Mutant: the response-time pass also renders Size, with the count so far.
RenderResponseAlsoSize(f, rs) ==
    CASE f.kind = "Status" -> KV("status", Some(rs.status))
      [] f.kind = "ResponseHeader" -> KV(f.arg, HeaderOpt(rs.headers, f.arg))
      [] f.kind = "Size" -> KV("size", Some("0"))
      [] OTHER -> f

render_response(f, rs) ==
    CASE f.kind = "Status" -> KV("status", Some(rs.status))
      [] f.kind = "ResponseHeader" -> KV(f.arg, HeaderOpt(rs.headers, f.arg))
      [] OTHER -> f

\* Mutant: render has no arm for Field::Environment.
RenderNoEnvironment(f, size, entry_time, now) ==
    CASE f.kind = "Duration" -> KV("duration", Some(FmtSeconds(now - entry_time)))
      [] f.kind = "DurationMillis" -> KV("duration", Some(FmtMillis(now - entry_time)))
      [] f.kind = "Size" -> KV("size", Some(ToString(size)))
      [] OTHER -> f

render(f, size, entry_time, now) ==
    CASE f.kind = "Duration" -> KV("duration", Some(FmtSeconds(now - entry_time)))
      [] f.kind = "DurationMillis" -> KV("duration", Some(FmtMillis(now - entry_time)))
      [] f.kind = "Size" -> KV("size", Some(ToString(size)))
      [] f.kind = "Environment" -> KV(f.arg, Environ[f.arg])
      [] OTHER -> f

\* for unit in &mut fields.0 { unit.render_request(now, &req) }: the units
\* in order, each seeing the context the earlier ones left.
RECURSIVE RequestPass(_, _, _, _, _)
RequestPass(fields, now, rq, ext, gen) ==
    IF fields = <<>>
    THEN [fields |-> <<>>, ext |-> ext, gen |-> gen]
    ELSE LET r == render_request(Head(fields), now, rq, ext, gen)
             rest == RequestPass(Tail(fields), now, rq, r.ext, r.gen)
         IN [fields |-> <<r.field>> \o rest.fields, ext |-> rest.ext, gen |-> rest.gen]

\* for unit in &mut fields.0 { unit.render_response(&temp_res) }
ResponsePass(fields, rs) == [i \in 1..Len(fields) |-> render_response(fields[i], rs)]

\* for unit in &mut fields.0 { unit.render(*this.size, *this.time) }
CompletionPass(fields, size, entry_time, now) ==
    [i \in 1..Len(fields) |-> render(fields[i], size, entry_time, now)]

-----------------------------------------------------------------------------
(* rust_log::log (wrapper.rs) *)

\* Mutant: the filter_map of log leaves out the fields without a value.
RECURSIVE FilterKVSkipsNull(_)
FilterKVSkipsNull(fields) ==
    IF fields = <<>> THEN <<>>
    ELSE (IF Head(fields).kind = "KV" /\ IsSome(Head(fields).val)
          THEN <<[key |-> Head(fields).arg, value |-> Head(fields).val]>>
          ELSE <<>>) \o FilterKVSkipsNull(Tail(fields))

RECURSIVE FilterKV(_)
FilterKV(fields) ==
    IF fields = <<>> THEN <<>>
    ELSE (IF Head(fields).kind = "KV"
          THEN <<[key |-> Head(fields).arg, value |-> Head(fields).val]>>
          ELSE <<>>) \o FilterKV(Tail(fields))

\* The record the logger receives: level, target and the key/value pairs of
\* the KV fields, in the order of kv_fields.
LogRecord(level, target, kv_fields) ==
    [level |-> level, target |-> target, kvs |-> FilterKV(kv_fields)]

-----------------------------------------------------------------------------
(* Exclusion rules *)

ExcludePaths == {"/health"}
Patterns == {"^/api/v1/.*"}

\* Pattern sources that are no regular expression: an unclosed class.
BadPatterns == {"[a-"}

\* Mutant: the pattern is kept as written and never compiled.
RegexNewUnchecked(src) == Some(src)

\* Regex::new(src): Ok(the compiled pattern, kept by its source) or Err.
RegexNew(src) == IF src \in BadPatterns THEN None ELSE Some(src)

\* Regex::is_match of the compiled pattern on a path: an unanchored search.
\* "^/api/v1/.*" matches exactly the paths that start with /api/v1/.
IsMatch(pattern, path) ==
    CASE pattern = "^/api/v1/.*" -> path \in {"/api/v1/users"}
      [] OTHER -> FALSE

\* Mutant: the exclusion test forgets the patterns.
ExcludedExactOnly(inner, path) == path \in inner.exclude

\* The exclusion test of SLoggerMiddlewareService::call on req.path().
Excluded(inner, path) ==
    \/ path \in inner.exclude
    \/ \E i \in 1..Len(inner.exclude_regex) : IsMatch(inner.exclude_regex[i], path)

-----------------------------------------------------------------------------
(* Construction: FieldsBuilder, Fields, ListFields, SLogger *)

\* ListFields::from(Fields): fields.0.into_iter().collect() lists the
\* HashSet in its iteration order, which is any order of its elements.
ListFieldsFrom(set) ==
    {order \in [1..Cardinality(set) -> set] :
        \A i, j \in 1..Cardinality(set) : i # j => order[i] # order[j]}

\* module_path!() of logger.rs
ModulePath == "actix_web_middleware_slogger::logger"

LogTargets == {"custom_target"}

NoFuture == [state |-> "none", fields |-> None, time |-> 0, log_target |-> ""]
NoExtensions == [request_id |-> None, tracing_id |-> None]

\* The names of the requests in flight at the same time, and a name that
\* has no request yet.
FlightIds == {"a", "b"}
NoFlight ==
    [req |-> None, ext |-> NoExtensions, fut |-> NoFuture, res |-> None,
     stream |-> None, polls |-> 0, streamed |-> 0, emitted |-> <<>>]

Init ==
    /\ builder = {}
    /\ inserted = <<>>
    /\ logger = None
    /\ service = None
    /\ req = None
    /\ extensions = NoExtensions
    /\ generated = <<>>
    /\ fut = NoFuture
    /\ res = None
    /\ stream = None
    /\ eos = FALSE
    /\ polls = 0
    /\ lastInner = None
    /\ lastOut = None
    /\ streamed = 0
    /\ passes = <<>>
    /\ emitted = <<>>
    /\ panicked = None
    /\ origin = "none"
    /\ lastTarget = None
    /\ downstream = None
    /\ result = None
    /\ flights = [k \in FlightIds |-> NoFlight]

\* FieldsBuilder::with_*: self.fields.insert(field)
With(f) ==
    /\ panicked = None
    /\ logger = None
    /\ \/ Cardinality(builder \cup {f}) <= 1
       \/ /\ (builder \cup {f}) \subseteq CoreFields
          /\ Cardinality(builder \cup {f}) <= MaxFields
       \/ (builder \cup {f}) \subseteq DurationFields
    /\ builder' = builder \cup {f}
    /\ inserted' = IF f \in builder THEN inserted ELSE Append(inserted, f)
    /\ UNCHANGED <<flights, panicked, origin, lastTarget, downstream, result,
                   logger, service, req, extensions, generated, fut, res, stream,
                   eos, polls, lastInner, lastOut, streamed, passes, emitted>>

\* Mutant: the default builder makes the calls that the documentation of
\* SLogger::default lists, which has neither Version nor RealIp.
DefaultCallsDocumented ==
    << Spec0("Method"), Spec0("Status"), Spec0("Path"), Spec0("Params"),
       Spec0("Host"), Spec0("RemoteAddr"), Spec0("Size"), Spec0("Duration"),
       Spec0("RequestTime"), Spec0("UserAgent"), Spec0("Referer") >>

\* FieldsBuilder::default: the with_* calls it makes on a new builder, in
\* order.
DefaultCalls ==
    << Spec0("Method"), Spec0("Status"), Spec0("Path"), Spec0("Params"),
       Spec0("Version"), Spec0("Host"), Spec0("RemoteAddr"), Spec0("RealIp"),
       Spec0("Size"), Spec0("Duration"), Spec0("RequestTime"),
       Spec0("UserAgent"), Spec0("Referer") >>

Rotation(seq, k) == [i \in 1..Len(seq) |-> seq[((i - 1 + k) % Len(seq)) + 1]]

\* ListFields::from on the default field set: of the iteration orders of
\* the HashSet, which are too many to list, the first MaxDefaultOrders
\* rotations of the call order.
DefaultOrders == {Rotation(DefaultCalls, k) : k \in 0..(MaxDefaultOrders - 1)}

\* SLogger::default()
SLoggerDefault ==
    /\ panicked = None
    /\ logger = None
    /\ builder = {}
    /\ builder' = {DefaultCalls[i] : i \in 1..Len(DefaultCalls)}
    /\ inserted' = DefaultCalls
    /\ \E order \in DefaultOrders :
          logger' = Some([fields |-> order, exclude |-> {}, exclude_regex |-> <<>>,
                          log_target |-> "actix_web_middleware_slogger::logger"])
    /\ origin' = "default"
    /\ UNCHANGED <<flights, panicked, lastTarget, downstream, result,
                   service, req, extensions, generated, fut, res,
                   stream, eos, polls, lastInner, lastOut, streamed, passes, emitted>>

\* FieldsBuilder::with_request_id, with_request_header, with_response_header:
\* HeaderName::try_from(header).unwrap() panics on a string that is no header
\* name, and the builder that the method took by value is dropped.
WithHeader(kind, input) ==
    /\ panicked = None
    /\ logger = None
    /\ IF IsSome(HeaderNameTryFrom(input))
       THEN /\ Spec1(kind, Unwrap(HeaderNameTryFrom(input))) \in BuilderFields
            /\ With(Spec1(kind, Unwrap(HeaderNameTryFrom(input))))
       ELSE /\ builder' = {}
            /\ panicked' = Some("InvalidHeaderName")
            /\ UNCHANGED <<flights, origin, lastTarget, downstream, result,
                           inserted, logger, service, req, extensions, generated,
                           fut, res, stream, eos, polls, lastInner, lastOut,
                           streamed, passes, emitted>>

\* FieldsBuilder::build and SLogger::new(fields)
SLoggerNew ==
    /\ panicked = None
    /\ logger = None
    /\ \E order \in ListFieldsFrom(builder) :
          logger' = Some([fields |-> order, exclude |-> {}, exclude_regex |-> <<>>,
                          log_target |-> ModulePath])
    /\ origin' = "new"
    /\ UNCHANGED <<flights, panicked, lastTarget, downstream, result,
                   builder, inserted, service, req, extensions, generated, fut, res,
                   stream, eos, polls, lastInner, lastOut, streamed, passes, emitted>>

\* Mutant: the Inner is handed out for writing while the service shares it.
RcGetMutShared(lg, sv) == Some(lg)

\* Rc::get_mut(&mut self.0): the Inner for writing when no other Rc points
\* to it, None while a service holds its clone of the Rc.
RcGetMut(lg, sv) == IF sv = None THEN Some(lg) ELSE None

\* The Inner the service sees after the SLogger's Inner became lg: the same
\* allocation, when a service exists.
SharedWith(sv, lg) == IF sv = None THEN None ELSE Some(lg)

\* SLogger::exclude. Rc::get_mut(..).unwrap() panics while a service shares
\* the Inner, and the SLogger that the method took by value is dropped.
Exclude(path) ==
    /\ panicked = None
    /\ IsSome(logger)
    /\ path \notin Unwrap(logger).exclude
    /\ IF IsSome(RcGetMut(Unwrap(logger), service))
       THEN LET inner == Unwrap(RcGetMut(Unwrap(logger), service))
            IN /\ logger' = Some([inner EXCEPT !.exclude = @ \cup {path}])
               /\ service' = SharedWith(service, Unwrap(logger'))
               /\ panicked' = panicked
       ELSE /\ logger' = None
            /\ service' = service
            /\ panicked' = Some("Rc::get_mut")
    /\ UNCHANGED <<flights, origin, lastTarget, downstream, result,
                   builder, inserted, req, extensions, generated, fut, res,
                   stream, eos, polls, lastInner, lastOut, streamed, passes, emitted>>

\* SLogger::exclude_regex
\* Regex::new(..).unwrap() panics on a pattern that does not compile, and the
\* SLogger that the method took by value is dropped.
\* Rc::get_mut(..).unwrap() comes first and panics while a service shares
\* the Inner.
ExcludeRegex(pattern) ==
    /\ panicked = None
    /\ IsSome(logger)
    /\ Len(Unwrap(logger).exclude_regex) < MaxRegex
    /\ IF ~IsSome(RcGetMut(Unwrap(logger), service))
       THEN /\ logger' = None
            /\ service' = service
            /\ panicked' = Some("Rc::get_mut")
       ELSE IF IsSome(RegexNew(pattern))
       THEN LET inner == Unwrap(RcGetMut(Unwrap(logger), service))
            IN /\ logger' = Some([inner EXCEPT
                                     !.exclude_regex = Append(@, Unwrap(RegexNew(pattern)))])
               /\ service' = SharedWith(service, Unwrap(logger'))
               /\ panicked' = panicked
       ELSE /\ logger' = None
            /\ service' = service
            /\ panicked' = Some("regex::Error")
    /\ UNCHANGED <<flights, origin, lastTarget, downstream, result,
                   builder, inserted, req, extensions, generated, fut, res,
                   stream, eos, polls, lastInner, lastOut, streamed, passes, emitted>>

\* SLogger::log_target. Rc::get_mut(..).unwrap() panics while a service
\* shares the Inner.
LogTarget(target) ==
    /\ panicked = None
    /\ IsSome(logger)
    /\ Unwrap(logger).log_target # target
    /\ IF IsSome(RcGetMut(Unwrap(logger), service))
       THEN LET inner == Unwrap(RcGetMut(Unwrap(logger), service))
            IN /\ logger' = Some([inner EXCEPT !.log_target = target])
               /\ service' = SharedWith(service, Unwrap(logger'))
               /\ lastTarget' = Some(target)
               /\ panicked' = panicked
       ELSE /\ logger' = None
            /\ service' = service
            /\ lastTarget' = lastTarget
            /\ panicked' = Some("Rc::get_mut")
    /\ UNCHANGED <<flights, origin, downstream, result,
                   builder, inserted, req, extensions, generated, fut, res,
                   stream, eos, polls, lastInner, lastOut, streamed, passes, emitted>>

\* SLogger::new_transform: the service shares the Inner of the SLogger
NewTransform ==
    /\ panicked = None
    /\ IsSome(logger)
    /\ service = None
    /\ service' = logger
    /\ UNCHANGED <<flights, panicked, origin, lastTarget, downstream, result,
                   builder, inserted, logger, req, extensions, generated, fut, res,
                   stream, eos, polls, lastInner, lastOut, streamed, passes, emitted>>

-----------------------------------------------------------------------------
(* SLoggerMiddlewareService::call *)

\* The request ID that TracingLogger generates for the request.
TracingLoggerId == 71

\* self.service.call(req) in the documented setup: the downstream service is
\* TracingLogger's, whose call puts its request ID in the request context.
ServiceCall(ext) == [ext EXCEPT !.tracing_id = Some(TracingLoggerId)]

\* Mutant: call renders the fields before it looks at the exclusion rules.
CallResultRendersExcluded(inner, rq, now, ext, gen) ==
    LET r == RequestPass(inner.fields, now, rq, ext, gen)
    IN [fut |-> [state |-> "pending", fields |-> Some(r.fields), time |-> now,
                 log_target |-> inner.log_target],
        ext |-> ServiceCall(r.ext), gen |-> r.gen, ran |-> <<"request">>]

\* Mutant: call hands the request downstream with the fields as configured
\* and leaves the request-time pass to a later step.
CallResultDefersRequestPass(inner, rq, now, ext, gen) ==
    IF Excluded(inner, rq.path)
    THEN [fut |-> [state |-> "pending", fields |-> None, time |-> now,
                   log_target |-> ""],
          ext |-> ServiceCall(ext), gen |-> gen, ran |-> <<>>]
    ELSE [fut |-> [state |-> "pending", fields |-> Some(inner.fields), time |-> now,
                   log_target |-> inner.log_target],
          ext |-> ServiceCall(ext), gen |-> gen, ran |-> <<>>]

\* The SLoggerResponse that call returns, with the request context and the
\* identities generated by the request-time pass.
CallResult(inner, rq, now, ext, gen) ==
    IF Excluded(inner, rq.path)
    THEN [fut |-> [state |-> "pending", fields |-> None, time |-> now,
                   log_target |-> ""],
          ext |-> ServiceCall(ext), gen |-> gen, ran |-> <<>>]
    ELSE LET r == RequestPass(inner.fields, now, rq, ext, gen)
         IN [fut |-> [state |-> "pending", fields |-> Some(r.fields), time |-> now,
                      log_target |-> inner.log_target],
             ext |-> ServiceCall(r.ext), gen |-> r.gen, ran |-> <<"request">>]

\* Mutant: call renders the fields of the shared Inner where they are.
InnerRenderedInPlace(inner, f) ==
    IF IsSome(f.fields) THEN [inner EXCEPT !.fields = Unwrap(f.fields)] ELSE inner

\* let mut fields = self.inner.fields.clone(): the request-time pass works
\* on a clone, and the Inner the service shares is as it was.
InnerAfterCall(inner, f) == inner

Call(rq, now) ==
    /\ IsSome(service)
    /\ fut.state = "none"
    /\ LET c == CallResult(Unwrap(service), rq, now, extensions, generated)
       IN /\ fut' = c.fut
          /\ extensions' = c.ext
          /\ generated' = c.gen
          /\ passes' = passes \o c.ran
          /\ service' = Some(InnerAfterCall(Unwrap(service), c.fut))
    /\ req' = Some(rq)
    /\ UNCHANGED <<flights, panicked, origin, lastTarget, downstream, result,
                   builder, inserted, logger, res, stream, eos, polls,
                   lastInner, lastOut, streamed, emitted>>

-----------------------------------------------------------------------------
(* SLoggerResponse::poll *)

\* The fields after the response-time pass of poll: rendered when the
\* future holds fields, None otherwise.
PollFields(fields, rs) ==
    IF IsSome(fields) THEN Some(ResponsePass(Unwrap(fields), rs)) ELSE None

\* The StreamLog that poll wraps the response body in.
NewStreamLog(f, rs) ==
    [body |-> [size |-> rs.size], fields |-> PollFields(f.fields, rs), size |-> 0,
     time |-> f.time, log_target |-> f.log_target]

\* Errors the downstream service resolves to.
Errors == {"timeout", "internal"}

\* Mutant: poll rebuilds the response of a participating request around a
\* fresh head, which loses the headers.
PollOutputFreshHead(f, rs) ==
    [tag |-> "ok", status |-> rs.status,
     headers |-> IF IsSome(f.fields) THEN [h \in DOMAIN rs.headers |-> None]
                 ELSE rs.headers]

\* The head of the response poll resolves to for Ok(res): res is taken
\* apart and put together again around the same head, then its body is
\* wrapped.
PollOutput(f, rs) == [tag |-> "ok", status |-> rs.status, headers |-> rs.headers]

\* What poll resolves to for Err(err).
PollErrOutput(err) == [tag |-> "err", err |-> err]

\* poll when the downstream future resolves to Ok(res). The awaiting caller
\* drops the resolved future, whose fields have been taken.
PollOk(rs) ==
    /\ fut.state = "pending"
    /\ res' = Some(rs)
    /\ downstream' = Some([tag |-> "ok", response |-> rs])
    /\ result' = Some(PollOutput(fut, rs))
    /\ stream' = Some(NewStreamLog(fut, rs))
    /\ passes' = IF IsSome(fut.fields) THEN Append(passes, "response") ELSE passes
    /\ fut' = [fut EXCEPT !.state = "done_ok", !.fields = None]
    /\ UNCHANGED <<flights, panicked, origin, lastTarget,
                   builder, inserted, logger, service, req, extensions, generated,
                   eos, polls, lastInner, lastOut, streamed, emitted>>

\* poll when the downstream future resolves to Err(err): Err is returned
\* and the future is dropped with its fields; SLoggerResponse has no
\* destructor of its own.
PollErr(err) ==
    /\ fut.state = "pending"
    /\ downstream' = Some([tag |-> "err", err |-> err])
    /\ result' = Some(PollErrOutput(err))
    /\ fut' = [fut EXCEPT !.state = "done_err", !.fields = None]
    /\ UNCHANGED <<flights, panicked, origin, lastTarget,
                   builder, inserted, logger, service, req, extensions, generated,
                   res, stream, eos, polls, lastInner, lastOut, streamed, passes,
                   emitted>>

\* The SLoggerResponse is dropped while the downstream future is pending.
DropFuture ==
    /\ fut.state = "pending"
    /\ fut' = [fut EXCEPT !.state = "cancelled", !.fields = None]
    /\ UNCHANGED <<flights, panicked, origin, lastTarget, downstream, result,
                   builder, inserted, logger, service, req, extensions, generated,
                   res, stream, eos, polls, lastInner, lastOut, streamed, passes,
                   emitted>>

-----------------------------------------------------------------------------
(* StreamLog: MessageBody and PinnedDrop *)

\* StreamLog::size
StreamLogSize(st) == st.body.size

\* Mutant: poll_next ends the stream on an error item.
PollNextItemErrEnds(item) ==
    CASE item.tag = "chunk" -> Chunk(item.data)
      [] item.tag = "err" -> EndOfStream
      [] item.tag = "eos" -> EndOfStream
      [] OTHER -> Pending

\* What poll_next returns for the item the wrapped body returned.
PollNextItem(item) ==
    CASE item.tag = "chunk" -> Chunk(item.data)
      [] item.tag = "err" -> [tag |-> "err", data |-> item.data]
      [] item.tag = "eos" -> EndOfStream
      [] OTHER -> Pending

\* Mutant: poll_next counts the bytes of an error item too.
PollNextSizeCountsErrors(size, item) ==
    IF item.tag \in {"chunk", "err"} THEN size + Len(item.data) ELSE size

\* The byte counter after poll_next saw the item.
PollNextSize(size, item) ==
    IF item.tag = "chunk" THEN size + Len(item.data) ELSE size

PollNext(item) ==
    /\ IsSome(stream)
    /\ polls < MaxPolls
    /\ polls' = polls + 1
    /\ lastInner' = Some(item)
    /\ lastOut' = Some(PollNextItem(item))
    /\ stream' = Some([Unwrap(stream) EXCEPT !.size = PollNextSize(@, item)])
    /\ eos' = (eos \/ item.tag = "eos")
    /\ streamed' = streamed + (IF PollNextItem(item).tag = "chunk"
                               THEN Len(PollNextItem(item).data) ELSE 0)
    /\ UNCHANGED <<flights, panicked, origin, lastTarget, downstream, result,
                   builder, inserted, logger, service, req, extensions, generated,
                   fut, res, passes, emitted>>

\* Mutant: drop skips the record of a body that streamed nothing.
DropRecordsNonEmpty(st, now) ==
    IF IsSome(st.fields) /\ st.size > 0
    THEN <<LogRecord("Info", st.log_target,
                     CompletionPass(Unwrap(st.fields), st.size, st.time, now))>>
    ELSE <<>>

\* Mutant: drop logs inside its rendering loop, once per field.
DropRecordsPerField(st, now) ==
    IF IsSome(st.fields)
    THEN [i \in 1..Len(Unwrap(st.fields)) |->
            LogRecord("Info", st.log_target,
                      CompletionPass(Unwrap(st.fields), st.size, st.time, now))]
    ELSE <<>>

\* Mutant: drop stays silent once the wrapped body has reported
\* end-of-stream.
DropRecordsUnlessEos(st, now) ==
    IF IsSome(st.fields) /\ ~eos
    THEN <<LogRecord("Info", st.log_target,
                     CompletionPass(Unwrap(st.fields), st.size, st.time, now))>>
    ELSE <<>>

\* Mutant: drop logs under the module path whatever target was configured.
DropRecordsModuleTarget(st, now) ==
    IF IsSome(st.fields)
    THEN <<LogRecord("Info", ModulePath,
                     CompletionPass(Unwrap(st.fields), st.size, st.time, now))>>
    ELSE <<>>

\* The records StreamLog::drop hands to rust_log::log: one when the
\* StreamLog holds fields, none otherwise.
DropRecords(st, now) ==
    IF IsSome(st.fields)
    THEN <<LogRecord("Info", st.log_target,
                     CompletionPass(Unwrap(st.fields), st.size, st.time, now))>>
    ELSE <<>>

\* StreamLog::drop, run when the response body is torn down.
DropBody(now) ==
    /\ IsSome(stream)
    /\ emitted' = emitted \o DropRecords(Unwrap(stream), now)
    /\ passes' = IF IsSome(Unwrap(stream).fields)
                 THEN Append(passes, "completion") ELSE passes
    /\ stream' = None
    /\ UNCHANGED <<flights, panicked, origin, lastTarget, downstream, result,
                   builder, inserted, logger, service, req, extensions, generated,
                   fut, res, eos, polls, lastInner, lastOut, streamed>>

-----------------------------------------------------------------------------
(* One service handling the requests of FlightIds concurrently: the steps  *)
(* of call, poll, poll_next and drop, for the request named k               *)

\* The field list of the shared service.
SharedFields ==
    << Spec0("Method"), Spec1("RequestId", "x-request-id"), Spec0("Status"),
       Spec0("Size") >>

\* The middleware the shared service was created from: SharedFields, with
\* or without the excluded path.
SharedInners ==
    { [fields |-> SharedFields, exclude |-> ex, exclude_regex |-> <<>>,
       log_target |-> ModulePath] : ex \in {{}, ExcludePaths} }

\* The state after SLogger::new(fields), exclude and new_transform.
SharedInit ==
    /\ builder = {SharedFields[i] : i \in 1..Len(SharedFields)}
    /\ inserted = SharedFields
    /\ \E inner \in SharedInners : logger = Some(inner) /\ service = Some(inner)
    /\ req = None
    /\ extensions = NoExtensions
    /\ generated = <<>>
    /\ fut = NoFuture
    /\ res = None
    /\ stream = None
    /\ eos = FALSE
    /\ polls = 0
    /\ lastInner = None
    /\ lastOut = None
    /\ streamed = 0
    /\ passes = <<>>
    /\ emitted = <<>>
    /\ panicked = None
    /\ origin = "new"
    /\ lastTarget = None
    /\ downstream = None
    /\ result = None
    /\ flights = [k \in FlightIds |-> NoFlight]

\* SLoggerMiddlewareService::call for the request named k, which comes
\* with a request context of its own.
SharedCall(k, rq, now) ==
    /\ IsSome(service)
    /\ flights[k].fut.state = "none"
    /\ LET c == CallResult(Unwrap(service), rq, now, NoExtensions, generated)
       IN /\ flights' = [flights EXCEPT ![k] =
                            [@ EXCEPT !.req = Some(rq), !.fut = c.fut, !.ext = c.ext]]
          /\ generated' = c.gen
          /\ service' = Some(InnerAfterCall(Unwrap(service), c.fut))
    /\ UNCHANGED <<builder, inserted, logger, req, extensions, fut, res, stream,
                   eos, polls, lastInner, lastOut, streamed, passes, emitted,
                   panicked, origin, lastTarget, downstream, result>>

\* SLoggerResponse::poll of the request named k, Ok(res)
SharedPollOk(k, rs) ==
    /\ flights[k].fut.state = "pending"
    /\ flights' = [flights EXCEPT ![k] =
                      [@ EXCEPT !.res = Some(rs),
                                !.stream = Some(NewStreamLog(flights[k].fut, rs)),
                                !.fut = [@ EXCEPT !.state = "done_ok",
                                                  !.fields = None]]]
    /\ UNCHANGED <<builder, inserted, logger, service, req, extensions, generated,
                   fut, res, stream, eos, polls, lastInner, lastOut, streamed,
                   passes, emitted, panicked, origin, lastTarget, downstream,
                   result>>

\* SLoggerResponse::poll of the request named k, Err(err)
SharedPollErr(k) ==
    /\ flights[k].fut.state = "pending"
    /\ flights' = [flights EXCEPT ![k] =
                      [@ EXCEPT !.fut = [@ EXCEPT !.state = "done_err",
                                                  !.fields = None]]]
    /\ UNCHANGED <<builder, inserted, logger, service, req, extensions, generated,
                   fut, res, stream, eos, polls, lastInner, lastOut, streamed,
                   passes, emitted, panicked, origin, lastTarget, downstream,
                   result>>

\* StreamLog::poll_next of the body of the request named k
SharedPollNext(k, item) ==
    /\ IsSome(flights[k].stream)
    /\ flights[k].polls < MaxPolls
    /\ flights' = [flights EXCEPT ![k] =
                      [@ EXCEPT !.polls = @ + 1,
                                !.stream = Some([Unwrap(flights[k].stream) EXCEPT
                                                    !.size = PollNextSize(@, item)]),
                                !.streamed = @ + (IF PollNextItem(item).tag = "chunk"
                                                  THEN Len(PollNextItem(item).data)
                                                  ELSE 0)]]
    /\ UNCHANGED <<builder, inserted, logger, service, req, extensions, generated,
                   fut, res, stream, eos, polls, lastInner, lastOut, streamed,
                   passes, emitted, panicked, origin, lastTarget, downstream,
                   result>>

\* StreamLog::drop of the body of the request named k
SharedDropBody(k, now) ==
    /\ IsSome(flights[k].stream)
    /\ flights' = [flights EXCEPT ![k] =
                      [@ EXCEPT !.emitted = @ \o DropRecords(Unwrap(flights[k].stream), now),
                                !.stream = None]]
    /\ UNCHANGED <<builder, inserted, logger, service, req, extensions, generated,
                   fut, res, stream, eos, polls, lastInner, lastOut, streamed,
                   passes, emitted, panicked, origin, lastTarget, downstream,
                   result>>

\* The requests and the body items of the requests in flight.
SharedRequests == {rq \in Requests : rq.path # "/api/v1/users"}
SharedItems == {Chunk(<<7>>), Chunk(<<8, 9>>), EndOfStream}

SharedNext ==
    \/ \E k \in FlightIds, rq \in SharedRequests, now \in ArrivalTimes :
          SharedCall(k, rq, now)
    \/ \E k \in FlightIds, rs \in Responses : SharedPollOk(k, rs)
    \/ \E k \in FlightIds : SharedPollErr(k)
    \/ \E k \in FlightIds, item \in SharedItems : SharedPollNext(k, item)
    \/ \E k \in FlightIds, now \in CompletionTimes : SharedDropBody(k, now)
    \/ \E path \in ExcludePaths : Exclude(path)
    \/ \E pattern \in Patterns \cup BadPatterns : ExcludeRegex(pattern)
    \/ \E target \in LogTargets : LogTarget(target)

SharedSpec == SharedInit /\ [][SharedNext]_vars

-----------------------------------------------------------------------------

Next ==
    \/ \E f \in {g \in BuilderFields : g.kind \notin HeaderKinds} : With(f)
    \/ \E kind \in HeaderKinds, input \in HeaderInputs : WithHeader(kind, input)
    \/ SLoggerNew
    \/ SLoggerDefault
    \* configuration calls are made before new_transform here; SharedNext
    \* makes them on a middleware whose service exists
    \/ service = None /\ \E path \in ExcludePaths : Exclude(path)
    \/ service = None /\ \E pattern \in Patterns \cup BadPatterns : ExcludeRegex(pattern)
    \/ service = None /\ \E target \in LogTargets : LogTarget(target)
    \/ NewTransform
    \/ \E rq \in Requests, now \in ArrivalTimes : Call(rq, now)
    \/ \E rs \in Responses : PollOk(rs)
    \/ \E err \in Errors : PollErr(err)
    \/ DropFuture
    \/ \E item \in PollItems : PollNext(item)
    \/ \E now \in CompletionTimes : DropBody(now)

Spec == Init /\ [][Next]_vars

TypeOK ==
    /\ builder \subseteq BuilderFields
    /\ fut.state \in {"none", "pending", "cancelled", "done_err", "done_ok"}
    /\ polls \in 0..MaxPolls
    /\ Len(emitted) <= 1

-----------------------------------------------------------------------------
(* Vocabulary of the properties *)

\* The path of the request matches an exclusion rule of the service.
PathExcluded ==
    /\ IsSome(req)
    /\ IsSome(service)
    /\ \/ Unwrap(req).path \in Unwrap(service).exclude
       \/ \E i \in 1..Len(Unwrap(service).exclude_regex) :
             IsMatch(Unwrap(service).exclude_regex[i], Unwrap(req).path)

Participating == IsSome(req) /\ ~PathExcluded

\* The response body has been wrapped and torn down.
TornDown == fut.state = "done_ok" /\ stream = None

\* The fields the service was configured with.
Configured == Unwrap(service).fields

\* The key a spec is logged under.
FieldKey(f) ==
    CASE f.kind = "Method" -> "method"
      [] f.kind = "Status" -> "status"
      [] f.kind = "Path" -> "path"
      [] f.kind = "Params" -> "params"
      [] f.kind = "Version" -> "version"
      [] f.kind = "Host" -> "host"
      [] f.kind = "RemoteAddr" -> "remote_addr"
      [] f.kind = "RealIp" -> "real_ip"
      [] f.kind = "TracingRequestId" -> "tracing_request_id"
      [] f.kind = "Size" -> "size"
      [] f.kind \in {"Duration", "DurationMillis"} -> "duration"
      [] f.kind = "RequestTime" -> "datetime"
      [] f.kind = "UserAgent" -> "user_agent"
      [] f.kind = "Referer" -> "referer"
      [] OTHER -> f.arg

CountOf(seq, x) == Cardinality({i \in 1..Len(seq) : seq[i] = x})

-----------------------------------------------------------------------------
(* Properties *)

\* C1: once the wrapped body of a participating request is torn down, after
\* any number of chunks and whether or not end-of-stream was reached,
\* exactly one record has been emitted, and its size field is the total
\* length of the chunks streamed through the wrapper.
C1_OneRecordAtTeardown ==
    (Participating /\ TornDown) =>
        /\ Len(emitted) = 1
        /\ \A i \in 1..Len(Configured) :
              Configured[i].kind = "Size" =>
                  /\ i <= Len(emitted[1].kvs)
                  /\ emitted[1].kvs[i] = [key |-> "size", value |-> Some(ToString(streamed))]

\* C1 witness: a body dropped early, after chunks of 1 and 2 bytes and no
\* end-of-stream, whose record carries size 3.
C1_Witness ==
    /\ Participating /\ TornDown
    /\ ~eos /\ polls = 2 /\ streamed = 3
    /\ Len(emitted) = 1
    /\ \E i \in 1..Len(emitted[1].kvs) :
          emitted[1].kvs[i] = [key |-> "size", value |-> Some("3")]

\* C2: a participating request whose session ends before a response body
\* exists (the downstream service resolved to Err, or the response future
\* was dropped while pending) has run the completion pass and emitted
\* exactly one record.
C2_RecordWithoutResponse ==
    (Participating /\ fut.state \in {"done_err", "cancelled"}) =>
        /\ CountOf(passes, "completion") = 1
        /\ Len(emitted) = 1

\* C3: for a request whose path matches an exclusion rule no rendering pass
\* is run and nothing is emitted, however the body is polled or dropped.
C3_ExcludedNeverLogged ==
    PathExcluded => (passes = <<>> /\ emitted = <<>>)

\* C3 witness: a request excluded by a pattern, whose body streamed a chunk
\* and was torn down.
C3_Witness ==
    /\ PathExcluded
    /\ Unwrap(req).path \notin Unwrap(service).exclude
    /\ TornDown /\ streamed > 0
    /\ emitted = <<>>

\* C4: at most one record is ever emitted for the request, whatever polls
\* (chunks, errors, end-of-stream, polls after end-of-stream) precede the
\* teardown.
C4_AtMostOneRecord == Len(emitted) <= 1

\* C4 witness: end-of-stream, then another poll, then teardown, with two
\* configured fields and one record.
C4_Witness ==
    /\ TornDown /\ eos /\ polls = 2
    /\ lastInner # Some(EndOfStream)
    /\ Len(Configured) = 2
    /\ Len(emitted) = 1

\* C5: the request is treated as excluded exactly when its path, without
\* the query string, is in the exact-path set or matches a configured
\* pattern; the decision puts no identity in the request context.
C5_ExcludedIffRuleMatches ==
    fut.state = "pending" =>
        /\ (fut.fields = None) <=>
              \/ Unwrap(req).path \in Unwrap(service).exclude
              \/ \E i \in 1..Len(Unwrap(service).exclude_regex) :
                    IsMatch(Unwrap(service).exclude_regex[i], Unwrap(req).path)
        /\ fut.fields = None => (extensions.request_id = None /\ generated = <<>>)

\* C5 witness: /health?verbose=1 excluded by the exact path /health.
C5_Witness ==
    /\ fut.state = "pending"
    /\ fut.fields = None
    /\ Unwrap(req).path = "/health" /\ Unwrap(req).query # ""
    /\ Unwrap(service).exclude = {"/health"}
    /\ Unwrap(service).exclude_regex = <<>>

\* C6 as stated: when the wrapped body reports end-of-stream the completion
\* pass and the emission fire at that point.
C6_FiresAtEndOfStream ==
    (Participating /\ fut.state = "done_ok" /\ eos) =>
        /\ CountOf(passes, "completion") = 1
        /\ Len(emitted) = 1

\* C6 amended: the completion pass and the emission fire exactly once, at
\* the teardown of the tracker, whether or not the wrapped body reported
\* end-of-stream before; end-of-stream itself fires nothing.
C6_FiresAtTeardownOnly ==
    (Participating /\ fut.state = "done_ok") =>
        /\ IsSome(stream) => (CountOf(passes, "completion") = 0 /\ emitted = <<>>)
        /\ stream = None => (CountOf(passes, "completion") = 1 /\ Len(emitted) = 1)

\* C6 witness: end-of-stream was reported, the tracker was then torn down,
\* and the completion pass has run once.
C6_Witness ==
    /\ Participating /\ TornDown
    /\ eos /\ lastInner = Some(EndOfStream)
    /\ passes = <<"request", "response", "completion">>
    /\ Len(emitted) = 1

\* C7: the wrapper is a transparent proxy: what the transport gets from a
\* poll is what the wrapped body returned to it (pending, the chunk's bytes,
\* the error value, end-of-stream), and the size hint is the wrapped body's,
\* for excluded and participating requests alike.
C7_TransparentProxy ==
    /\ lastOut = lastInner
    /\ (IsSome(stream) /\ IsSome(res)) => StreamLogSize(Unwrap(stream)) = Unwrap(res).size

\* C7 witness: a participating request whose body returned a chunk and then
\* an error.
C7_Witness ==
    /\ Participating /\ IsSome(stream)
    /\ polls = 2 /\ streamed > 0
    /\ lastOut = Some(BodyErr)

\* C8: an emitted record holds one key/value pair per configured field: no
\* field is still an unrendered spec when the record is emitted.
C8_RecordHasEveryField ==
    \A r \in 1..Len(emitted) :
        /\ Len(emitted[r].kvs) = Len(Configured)
        /\ \A i \in 1..Len(Configured) : emitted[r].kvs[i].key = FieldKey(Configured[i])

\* C8 witness: a record of a response-time and a completion-time field.
C8_Witness ==
    /\ Len(emitted) = 1
    /\ Len(emitted[1].kvs) = 2
    /\ {Configured[1].kind, Configured[2].kind} = {"Status", "Size"}

\* C9: the record lists its fields in the order in which they were inserted
\* into the configured field set.
C9_InsertionOrder ==
    \A r \in 1..Len(emitted) :
        /\ Len(emitted[r].kvs) = Len(inserted)
        /\ \A i \in 1..Len(inserted) : emitted[r].kvs[i].key = FieldKey(inserted[i])

\* C10: a RequestId(h) field of a participating request is rendered, before
\* the downstream service runs, as the value of header h when the request
\* carries it, and otherwise as the hyphenated form of exactly the identity
\* that the request context holds; when every RequestId field finds its
\* header nothing is put into the context.
C10_RequestIdField ==
    (fut.state = "pending" /\ IsSome(fut.fields)) =>
        /\ \A i \in 1..Len(Configured) :
              Configured[i].kind = "RequestId" =>
                  LET h == Configured[i].arg
                      hv == Unwrap(req).headers[h]
                  IN Unwrap(fut.fields)[i] =
                        IF IsSome(hv)
                        THEN KV(h, Some(HeaderText(Unwrap(hv))))
                        ELSE IF IsSome(extensions.request_id)
                             THEN KV(h, Some(Hyphenated(Unwrap(extensions.request_id))))
                             ELSE KV(h, None)
        /\ (\A i \in 1..Len(Configured) :
               Configured[i].kind = "RequestId" =>
                   IsSome(Unwrap(req).headers[Configured[i].arg]))
           => extensions.request_id = None
        /\ (\E i \in 1..Len(Configured) :
               /\ Configured[i].kind = "RequestId"
               /\ ~IsSome(Unwrap(req).headers[Configured[i].arg]))
           => IsSome(extensions.request_id)

\* C11: at most one identity is generated for a request, and every RequestId
\* field that does not find its header logs the identity that the request
\* context holds.
C11_OneIdentityPerRequest ==
    /\ Len(generated) <= 1
    /\ (fut.state = "pending" /\ IsSome(fut.fields)) =>
          \A i \in 1..Len(Configured) :
              (Configured[i].kind = "RequestId"
                  /\ ~IsSome(Unwrap(req).headers[Configured[i].arg])) =>
                  /\ IsSome(extensions.request_id)
                  /\ Unwrap(fut.fields)[i].val =
                        Some(Hyphenated(Unwrap(extensions.request_id)))

\* C12: the middleware resolves to Err, with the downstream error, exactly
\* when the downstream service resolved to Err, and otherwise to a response
\* with the status and headers of the downstream response, for success and
\* error responses, excluded and participating requests alike.
C12_OutcomeUnchanged ==
    /\ IsSome(result) <=> IsSome(downstream)
    /\ IsSome(result) =>
          LET out == Unwrap(result)
              down == Unwrap(downstream)
          IN /\ out.tag = down.tag
             /\ out.tag = "err" => out.err = down.err
             /\ out.tag = "ok" =>
                   /\ out.status = down.response.status
                   /\ out.headers = down.response.headers

\* C12 witness: a participating request whose downstream service produced
\* the 500 response, resolved to that response and logged.
C12_Witness ==
    /\ Participating
    /\ IsSome(result) /\ Unwrap(result).tag = "ok"
    /\ Unwrap(result).status = "500 Internal Server Error"
    /\ Len(emitted) = 1

\* The datum a configured field reads is absent for the request and the
\* response at hand.
DatumAbsent(f) ==
    CASE f.kind = "RequestHeader" -> ~IsSome(Unwrap(req).headers[f.arg])
      [] f.kind = "UserAgent" -> ~IsSome(Unwrap(req).headers["user-agent"])
      [] f.kind = "Referer" -> ~IsSome(Unwrap(req).headers["referer"])
      [] f.kind = "ResponseHeader" -> ~IsSome(Unwrap(res).headers[f.arg])
      [] f.kind = "Environment" -> ~IsSome(Environ[f.arg])
      [] f.kind = "RemoteAddr" -> ~IsSome(Unwrap(req).peer)
      [] f.kind = "RealIp" -> ~IsSome(Unwrap(req).realip)
      [] OTHER -> FALSE

\* C13: a configured field whose datum is absent (request header not sent,
\* response header not set, environment variable unset, peer address
\* unavailable) is in the record, under its key, with the absent value that
\* is logged as null.
C13_AbsentDatumIsNull ==
    \A r \in 1..Len(emitted) :
        \A i \in 1..Len(Configured) :
            DatumAbsent(Configured[i]) =>
                /\ i <= Len(emitted[r].kvs)
                /\ emitted[r].kvs[i] = [key |-> FieldKey(Configured[i]), value |-> None]

\* C13 witness: the record of ResponseHeader("x-missing").
C13_Witness ==
    /\ Len(emitted) = 1
    /\ Configured = <<Spec1("ResponseHeader", "x-missing")>>
    /\ emitted[1].kvs = <<[key |-> "x-missing", value |-> None]>>

\* Bytes that are not valid UTF-8: one of the byte values that occur in no
\* UTF-8 sequence would be enough.
InvalidUtf8(bytes) ==
    \E i \in 1..Len(bytes) : bytes[i] \in {192, 193} \cup (245..255)

\* The header bytes a header-derived field reads, or None.
HeaderDatum(f) ==
    CASE f.kind \in {"RequestId", "RequestHeader"} -> Unwrap(req).headers[f.arg]
      [] f.kind = "UserAgent" -> Unwrap(req).headers["user-agent"]
      [] f.kind = "Referer" -> Unwrap(req).headers["referer"]
      [] f.kind = "ResponseHeader" -> Unwrap(res).headers[f.arg]
      [] OTHER -> None

\* C14: a header that is present with bytes that are not valid UTF-8 is
\* logged as the present empty string by every header-derived field, and
\* the caller still gets the outcome of the downstream service.
C14_UndecodableHeaderIsEmpty ==
    /\ \A r \in 1..Len(emitted) :
           \A i \in 1..Len(Configured) :
               (IsSome(HeaderDatum(Configured[i]))
                   /\ InvalidUtf8(Unwrap(HeaderDatum(Configured[i])))) =>
                   /\ i <= Len(emitted[r].kvs)
                   /\ emitted[r].kvs[i] =
                         [key |-> FieldKey(Configured[i]), value |-> Some("")]
    /\ (IsSome(result) /\ IsSome(req)
           /\ \E h \in DOMAIN Unwrap(req).headers :
                  /\ IsSome(Unwrap(req).headers[h])
                  /\ InvalidUtf8(Unwrap(Unwrap(req).headers[h]))) =>
           Unwrap(result).tag = Unwrap(downstream).tag

\* C14 witness: the record of a response whose content-type cannot be
\* decoded.
C14_Witness ==
    /\ Len(emitted) = 1
    /\ Configured = <<Spec1("ResponseHeader", "content-type")>>
    /\ InvalidUtf8(Unwrap(Unwrap(res).headers["content-type"]))
    /\ emitted[1].kvs = <<[key |-> "content-type", value |-> Some("")]>>

\* The header names that HeaderName::try_from yields for the strings the
\* builder methods are called with.
AcceptedHeaderNames ==
    {Unwrap(HeaderNameTryFrom(input)) :
        input \in {b \in HeaderInputs : IsSome(HeaderNameTryFrom(b))}}

\* C15: a pattern that does not compile and a string that is no header name
\* fail while the middleware is being configured, before a service exists,
\* and nothing is handled after the failure; a service that exists holds
\* only compiled patterns and only valid, lower-case header names.
C15_ConfigErrorsAtConfiguration ==
    /\ panicked \in {Some("regex::Error"), Some("InvalidHeaderName")} =>
          /\ service = None
          /\ req = None
          /\ emitted = <<>>
    /\ IsSome(service) =>
          /\ panicked \notin {Some("regex::Error"), Some("InvalidHeaderName")}
          /\ \A i \in 1..Len(Unwrap(service).exclude_regex) :
                Unwrap(service).exclude_regex[i] \notin BadPatterns
          /\ \A i \in 1..Len(Configured) :
                Configured[i].kind \in HeaderKinds =>
                   Configured[i].arg \in AcceptedHeaderNames

\* C15 witness: exclude_regex was called with a pattern that does not
\* compile, on a middleware that had been built.
C15_Witness ==
    /\ panicked = Some("regex::Error")
    /\ inserted # <<>>
    /\ logger = None
    /\ service = None

\* C16: with the TracingRequestId field configured and TracingLogger wrapped
\* inside SLogger, the record's tracing_request_id is the request ID that
\* TracingLogger put in the request context for the request.
C16_TracingIdLogged ==
    \A r \in 1..Len(emitted) :
        \A i \in 1..Len(Configured) :
            Configured[i].kind = "TracingRequestId" =>
                /\ IsSome(extensions.tracing_id)
                /\ emitted[r].kvs[i] =
                      [key |-> "tracing_request_id",
                       value |-> Some(Hyphenated(Unwrap(extensions.tracing_id)))]

\* C17: every record has severity Info and the log target configured on the
\* middleware the service was created from: the last value given to
\* log_target, or "actix_web_middleware_slogger::logger" when log_target was
\* never called.
C17_InfoAtConfiguredTarget ==
    \A r \in 1..Len(emitted) :
        /\ emitted[r].level = "Info"
        /\ emitted[r].target =
              IF IsSome(lastTarget) THEN Unwrap(lastTarget)
              ELSE "actix_web_middleware_slogger::logger"

\* C17 witness: a record under custom_target.
C17_Witness ==
    /\ Len(emitted) = 1
    /\ lastTarget = Some("custom_target")
    /\ emitted[1].target = "custom_target"

ReadableHeader(name) ==
    /\ IsSome(Unwrap(req).headers[name])
    /\ \A i \in 1..Len(Unwrap(Unwrap(req).headers[name])) :
           IsVisibleAscii(Unwrap(Unwrap(req).headers[name])[i])

\* C19: after the request-time pass each request-time field is the pair of
\* its fixed key and the datum of the request: method and verb, path and the
\* path without the query string, params and the raw query string,
\* user_agent and referer and the value of their header, a RequestHeader or
\* RequestId and the value of its header when present, datetime and the
\* arrival time.
C19_RequestPassMapping ==
    (fut.state = "pending" /\ IsSome(fut.fields)) =>
        \A i \in 1..Len(Configured) :
            LET f == Configured[i]
                out == Unwrap(fut.fields)[i]
                rq == Unwrap(req)
            IN /\ f.kind = "Method" => out = KV("method", Some(rq.method))
               /\ f.kind = "Path" => out = KV("path", Some(rq.path))
               /\ f.kind = "Params" => out = KV("params", Some(rq.query))
               /\ (f.kind = "UserAgent" /\ ReadableHeader("user-agent")) =>
                     out = KV("user_agent",
                              Some(Text(Unwrap(rq.headers["user-agent"]))))
               /\ (f.kind = "Referer" /\ ReadableHeader("referer")) =>
                     out = KV("referer", Some(Text(Unwrap(rq.headers["referer"]))))
               /\ (f.kind \in {"RequestHeader", "RequestId"}
                      /\ ReadableHeader(f.arg)) =>
                     out = KV(f.arg, Some(Text(Unwrap(rq.headers[f.arg]))))
               /\ f.kind = "RequestTime" =>
                     out = KV("datetime", Some(Rfc3339(fut.time)))

\* C19 witness: the request-time pass of the default fields on
\* GET /test?param=value.
C19_Witness ==
    /\ fut.state = "pending"
    /\ IsSome(fut.fields)
    /\ origin = "default"
    /\ Unwrap(req).query = "param=value"
    /\ \E i \in 1..Len(Configured) :
          /\ Configured[i].kind = "Path"
          /\ Unwrap(fut.fields)[i] = KV("path", Some("/test"))

\* The pass that renders a field.
Stage(f) ==
    CASE f.kind \in {"Status", "ResponseHeader"} -> "response"
      [] f.kind \in {"Size", "Duration", "DurationMillis", "Environment"} ->
            "completion"
      [] OTHER -> "request"

\* C20: for a participating request the request-time pass is complete when
\* the request has gone downstream and saw the request context as it was
\* before the downstream call; the response-time pass runs once the
\* downstream service has yielded its response and is done when the response
\* is handed back; the completion pass runs only after the response-time
\* pass, and no record is emitted before the response-time pass.
C20_PassesInPipelineOrder ==
    /\ passes \in {<<>>, <<"request">>, <<"request", "response">>,
                   <<"request", "response", "completion">>}
    /\ (Participating /\ fut.state = "pending") =>
          /\ passes = <<"request">>
          /\ downstream = None
          /\ result = None
          /\ \A i \in 1..Len(Configured) :
                /\ (Unwrap(fut.fields)[i].kind = "KV") <=>
                      (Stage(Configured[i]) = "request")
                /\ Configured[i].kind = "TracingRequestId" =>
                      /\ IsSome(extensions.tracing_id)
                      /\ Unwrap(fut.fields)[i].val = None
    /\ Len(passes) >= 2 => (IsSome(downstream) /\ Unwrap(downstream).tag = "ok")
    /\ (Participating /\ IsSome(result) /\ Unwrap(result).tag = "ok") =>
          Len(passes) >= 2
    /\ (IsSome(stream) /\ IsSome(Unwrap(stream).fields)) =>
          /\ passes = <<"request", "response">>
          /\ \A i \in 1..Len(Configured) :
                (Unwrap(Unwrap(stream).fields)[i].kind = "KV") <=>
                    (Stage(Configured[i]) \in {"request", "response"})
    /\ emitted # <<>> => passes = <<"request", "response", "completion">>

\* C20 witness: the response of a participating request has been handed
\* back with its body wrapped: two passes done, the completion pass and the
\* record still to come.
C20_Witness ==
    /\ Participating
    /\ IsSome(result)
    /\ IsSome(stream)
    /\ passes = <<"request", "response">>
    /\ emitted = <<>>
    /\ \E i \in 1..Len(Configured) : Stage(Configured[i]) = "completion"
    /\ \E i \in 1..Len(Configured) : Stage(Configured[i]) = "response"

\* C21: a pass changes only the unrendered specs of its own stage. The
\* request-time pass leaves the specs of the other stages as configured;
\* the response-time pass leaves every rendered pair and every
\* completion-stage spec as it found it; the completion pass logs every
\* pair rendered before it as it was; and a pass applied a second time to
\* its own result changes nothing.
C21_PassesTouchOnlyTheirStage ==
    /\ []((fut.state = "pending" /\ IsSome(fut.fields)) =>
            LET again == RequestPass(Unwrap(fut.fields), fut.time, Unwrap(req),
                                     extensions, generated)
            IN /\ again.fields = Unwrap(fut.fields)
               /\ again.ext = extensions
               /\ again.gen = generated
               /\ \A i \in 1..Len(Configured) :
                     Stage(Configured[i]) # "request" =>
                         Unwrap(fut.fields)[i] = Configured[i])
    /\ []((IsSome(stream) /\ IsSome(Unwrap(stream).fields)) =>
            LET st == Unwrap(stream)
                held == Unwrap(st.fields)
            IN /\ ResponsePass(held, Unwrap(res)) = held
               /\ \A i \in 1..Len(Configured) :
                     Stage(Configured[i]) = "completion" => held[i] = Configured[i]
               /\ \A now \in CompletionTimes, later \in CompletionTimes :
                     CompletionPass(CompletionPass(held, st.size, st.time, now),
                                    st.size + 1, st.time, later)
                         = CompletionPass(held, st.size, st.time, now))
    /\ [][/\ (fut.state = "pending" /\ IsSome(fut.fields) /\ stream' # None) =>
                \A i \in 1..Len(Configured) :
                    Unwrap(fut.fields)[i].kind = "KV" =>
                        Unwrap(Unwrap(stream').fields)[i] = Unwrap(fut.fields)[i]
          /\ (IsSome(stream) /\ IsSome(Unwrap(stream).fields) /\ stream' = None) =>
                \A i \in 1..Len(Configured) :
                    LET held == Unwrap(Unwrap(stream).fields)[i]
                    IN held.kind = "KV" =>
                          emitted'[Len(emitted')].kvs[i] =
                              [key |-> held.arg, value |-> held.val]]_vars

\* C21 witness: after the response-time pass of the fields Status and Size,
\* Status is a pair and Size is still the spec.
C21_Witness ==
    /\ IsSome(stream)
    /\ IsSome(Unwrap(stream).fields)
    /\ Configured = <<Spec0("Status"), Spec0("Size")>>
    /\ Unwrap(Unwrap(stream).fields)[1].kind = "KV"
    /\ Unwrap(Unwrap(stream).fields)[2] = Spec0("Size")
    /\ polls > 0

\* C22: every configured field, rendered at the pass of its kind, is a pair
\* with a non-empty key, the Environment field of every name the builder
\* accepts included.
C22_KeysNonEmpty ==
    /\ (fut.state = "pending" /\ IsSome(fut.fields)) =>
          \A i \in 1..Len(Configured) :
              Unwrap(fut.fields)[i].kind = "KV" => Unwrap(fut.fields)[i].arg # ""
    /\ (IsSome(stream) /\ IsSome(Unwrap(stream).fields)) =>
          \A i \in 1..Len(Configured) :
              Unwrap(Unwrap(stream).fields)[i].kind = "KV" =>
                  Unwrap(Unwrap(stream).fields)[i].arg # ""
    /\ \A r \in 1..Len(emitted) :
          /\ Len(emitted[r].kvs) = Len(Configured)
          /\ \A i \in 1..Len(emitted[r].kvs) : emitted[r].kvs[i].key # ""

\* C23: the byte counter of the wrapper is the sum of the lengths of the
\* chunks it has returned: 0 when the body is wrapped, more by the length of
\* a chunk when a chunk is returned, unchanged by a pending poll, an error
\* item and end-of-stream; the size field of the record is that counter in
\* decimal.
C23_CounterIsBytesReturned ==
    /\ [](IsSome(stream) => Unwrap(stream).size = streamed)
    /\ [](\A r \in 1..Len(emitted) :
             \A i \in 1..Len(Configured) :
                 Configured[i].kind = "Size" =>
                     emitted[r].kvs[i] = [key |-> "size", value |-> Some(ToString(streamed))])
    /\ [][/\ (stream = None /\ stream' # None) => Unwrap(stream').size = 0
          /\ (stream # None /\ stream' # None /\ polls' # polls) =>
                Unwrap(stream').size =
                    Unwrap(stream).size +
                        (IF Unwrap(lastOut').tag = "chunk"
                         THEN Len(Unwrap(lastOut').data) ELSE 0)]_vars

\* C23 witness: a record with size 3 after the chunks of one and two bytes.
C23_Witness ==
    /\ Len(emitted) = 1
    /\ streamed = 3
    /\ polls = 2
    /\ \E i \in 1..Len(Configured) :
          /\ Configured[i].kind = "Size"
          /\ emitted[1].kvs[i].value = Some("3")

\* C24: the response-time fields of a record are those of the response the
\* downstream service produced for the request, error responses included:
\* status is its status, and a ResponseHeader is null when the response has
\* no such header and its value otherwise (the empty string when the value
\* cannot be decoded).
C24_ResponseFieldsOfTheResponse ==
    \A r \in 1..Len(emitted) :
        /\ IsSome(downstream)
        /\ Unwrap(downstream).tag = "ok"
        /\ \A i \in 1..Len(Configured) :
              LET f == Configured[i]
                  response == Unwrap(downstream).response
                  pair == emitted[r].kvs[i]
              IN /\ f.kind = "Status" =>
                       pair = [key |-> "status", value |-> Some(response.status)]
                 /\ f.kind = "ResponseHeader" =>
                       /\ pair.key = f.arg
                       /\ ~IsSome(response.headers[f.arg]) => pair.value = None
                       /\ IsSome(response.headers[f.arg]) =>
                             pair.value =
                                 Some(IF \A b \in 1..Len(Unwrap(response.headers[f.arg])) :
                                            IsVisibleAscii(Unwrap(response.headers[f.arg])[b])
                                      THEN Text(Unwrap(response.headers[f.arg]))
                                      ELSE "")

\* C24 witness: the record of an error response, with its status.
C24_Witness ==
    /\ Len(emitted) = 1
    /\ Unwrap(downstream).response.status = "500 Internal Server Error"
    /\ \E i \in 1..Len(Configured) :
          /\ Configured[i].kind = "Status"
          /\ emitted[1].kvs[i].value = Some("500 Internal Server Error")

\* C27: the keys of the pairs of a record are pairwise distinct.
C27_KeysPairwiseDistinct ==
    \A r \in 1..Len(emitted) :
        \A i, j \in 1..Len(emitted[r].kvs) :
            i # j => emitted[r].kvs[i].key # emitted[r].kvs[j].key

\* C25: with the requests of one service handled concurrently, their steps
\* interleaved in any order, a record has only the values of its own
\* request, response and byte count, two requests never get the same
\* generated identity, and the field list the service shares holds the
\* unrendered specs it was configured with in every state.
C25_RecordsOfTheirOwnRequest ==
    /\ IsSome(service)
    /\ Unwrap(service).fields = SharedFields
    /\ \A i \in 1..Len(Unwrap(service).fields) : Unwrap(service).fields[i].kind # "KV"
    /\ \A k \in FlightIds :
          \A r \in 1..Len(flights[k].emitted) :
              LET own == flights[k]
                  rq == Unwrap(own.req)
              IN own.emitted[r].kvs =
                    << [key |-> "method", value |-> Some(rq.method)],
                       [key |-> "x-request-id",
                        value |-> IF IsSome(rq.headers["x-request-id"])
                                  THEN Some(Text(Unwrap(rq.headers["x-request-id"])))
                                  ELSE Some(Hyphenated(Unwrap(own.ext.request_id)))],
                       [key |-> "status", value |-> Some(Unwrap(own.res).status)],
                       [key |-> "size", value |-> Some(ToString(own.streamed))] >>
    /\ \A k, l \in FlightIds :
          (k # l /\ IsSome(flights[k].ext.request_id)
                 /\ IsSome(flights[l].ext.request_id)) =>
              flights[k].ext.request_id # flights[l].ext.request_id

\* C25 witness: the record of request a, a GET with three bytes streamed, is
\* out while the body of request b, a POST, is being streamed.
C25_Witness ==
    /\ Len(flights["a"].emitted) = 1
    /\ Unwrap(flights["a"].req).method = "GET"
    /\ flights["a"].streamed = 3
    /\ IsSome(flights["b"].stream)
    /\ IsSome(Unwrap(flights["b"].stream).fields)
    /\ Unwrap(flights["b"].req).method = "POST"
    /\ flights["b"].streamed = 1

\* C26: while a service created from the SLogger exists, the exclusion
\* rules, the field set and the log target it observes are those it was
\* created with; exclude, exclude_regex and log_target called then fail and
\* change nothing the service sees.
C26_SharedConfigurationIsFrozen ==
    /\ [](\E inner \in SharedInners : service = Some(inner))
    /\ [](panicked # None => (panicked = Some("Rc::get_mut") /\ logger = None))
    /\ [][/\ IsSome(service) => service' = service
          /\ (IsSome(service) /\ logger' # logger) =>
                (logger' = None /\ panicked' = Some("Rc::get_mut"))]_vars

\* C26 witness: a configuration call has failed and the service has logged
\* a request.
C26_Witness ==
    /\ panicked = Some("Rc::get_mut")
    /\ IsSome(service)
    /\ \E k \in FlightIds : Len(flights[k].emitted) = 1

====
